---- MODULE Spec2Model ----
(***************************************************************************)
(* Model of the detection pipeline of app.py (analyze_image), the C2PA     *)
(* manifest check of src/c2pa_checker.py (check_c2pa) and the ensemble     *)
(* predictor of combine_model.py (AIEnsemblePredictor).                    *)
(*                                                                         *)
(* Python values are modelled as follows.                                  *)
(*  - a dict is a function on the set of its keys (Has, a key test);       *)
(*  - None in a layer slot is the record NoneVal, None in a string slot    *)
(*    is the string "None";                                                *)
(*  - a float is a fixed-point integer n standing for n / Scale, carried   *)
(*    in a record tagged with its Python type, because predict can return  *)
(*    a str where a float is expected;                                     *)
(*  - a file name is the sequence of its "/"-separated components, each    *)
(*    component a record of stem and extension.                            *)
(***************************************************************************)
EXTENDS Integers, Sequences, FiniteSets, TLC

\* ---------------------------------------------------------------- bounds
\* Number of requests the threaded server handles concurrently.
NumReqs == 2
\* Resolution of the fixed-point grid on which probabilities are modelled.
Scale == 100

Reqs == 1..NumReqs

\* ------------------------------------------------------- Python helpers
Has(d, k) == k \in DOMAIN d
EmptyDict == [k \in {} |-> TRUE]
NoneVal == [none |-> TRUE]
IsNone(v) == Has(v, "none")
PyInt(n) == [type |-> "int", val |-> n]
PyFloat(n) == [type |-> "float", val |-> n]
PyStr(s) == [type |-> "str", val |-> s, repeat |-> 1]
IsNumber(v) == v.type \in {"int", "float"}

\* Python's v * 100: a number is multiplied, a str is repeated.
\* A float n/Scale times 100 is (100*n)/Scale.
Times100(v) ==
  IF v.type = "str" THEN [v EXCEPT !.repeat = v.repeat * 100]
  ELSE PyFloat(v.val * 100)

\* ------------------------------------------------------------ app.py config
ALLOWED_EXTENSIONS == {"png", "jpg", "jpeg", "webp"}

\* str.lower() on the extensions that occur in the model.
Lower(e) ==
  CASE e = "PNG" -> "png"
    [] e = "JPG" -> "jpg"
    [] OTHER -> e

\* A component with no dot has ext = "nodot"; ".." has an empty extension
\* after rsplit('.', 1).
Comp(stem, ext) == [stem |-> stem, ext |-> ext]
DotDot == Comp("..", "")

\* allowed_file(filename): '.' in filename and
\* filename.rsplit('.', 1)[1].lower() in ALLOWED_EXTENSIONS.
\* The text after the last dot lies in the last component when that
\* component has a dot; otherwise it contains a "/" or there is no dot.
allowed_file(filename) ==
  /\ Len(filename) > 0
  /\ filename[Len(filename)].ext # "nodot"
  /\ Lower(filename[Len(filename)].ext) \in ALLOWED_EXTENSIONS

\* werkzeug secure_filename: separators become "_" joints, and leading
\* and trailing "." and "_" are stripped, which removes ".." components at
\* either end.  Case is kept.
RECURSIVE StripLeading(_)
StripLeading(f) ==
  IF Len(f) > 0 /\ f[1] = DotDot THEN StripLeading(Tail(f)) ELSE f
RECURSIVE StripTrailing(_)
StripTrailing(f) ==
  IF Len(f) > 0 /\ f[Len(f)] = DotDot
  THEN StripTrailing(SubSeq(f, 1, Len(f) - 1)) ELSE f
secure_filename(f) == StripTrailing(StripLeading(f))

\* ----------------------------------------------------- c2pa_checker.py
\* digitalSourceType values are sequences of URL segments; the Python test
\* "trainedAlgorithmicMedia" in s is a case-sensitive substring test, so it
\* finds the segment trainedAlgorithmicMedia and not
\* compositeWithTrainedAlgorithmicMedia.
SubstringIn(tok, s) == \E i \in 1..Len(s) : s[i] = tok

\* for assertion in assertions: ... is_ai = True  (lines 46-54)
ScanAssertions(assertions) ==
  \E i \in 1..Len(assertions) :
    /\ Has(assertions[i], "label")
    /\ assertions[i].label = "c2pa.actions"
    /\ Has(assertions[i], "data")
    /\ Has(assertions[i].data, "actions")
    /\ \E j \in 1..Len(assertions[i].data.actions) :
         LET action == assertions[i].data.actions[j] IN
           /\ Has(action, "digitalSourceType")
           /\ SubstringIn("trainedAlgorithmicMedia", action.digitalSourceType)

\* The body of the try block of check_c2pa once json.loads has returned
\* manifest_data (lines 30-62).
ReadManifest(manifest_data) ==
  IF ~Has(manifest_data, "active_manifest")
  THEN [c2pa_present |-> FALSE,
        message |-> "Manifest store exists but no active manifest."]
  ELSE
    LET manifests == IF Has(manifest_data, "manifests")
                     THEN manifest_data.manifests ELSE EmptyDict
        active_manifest ==
          IF manifest_data.active_manifest \in DOMAIN manifests
          THEN manifests[manifest_data.active_manifest] ELSE EmptyDict
        validation_status ==
          IF Has(manifest_data, "validation_status")
          THEN manifest_data.validation_status ELSE <<>>
        signature == IF Has(active_manifest, "signature_info")
                     THEN active_manifest.signature_info ELSE EmptyDict
        issuer == IF Has(signature, "issuer") THEN signature.issuer ELSE "None"
        assertions == IF Has(active_manifest, "assertions")
                      THEN active_manifest.assertions ELSE <<>>
    IN [c2pa_present |-> TRUE,
        valid |-> Len(validation_status) = 0,
        issuer |-> issuer,
        ai_generated |-> ScanAssertions(assertions),
        raw_data |-> manifest_data]

NoFile == [missing |-> TRUE]

\* Variant of check_c2pa whose answer without the library lacks the
\* available flag.
check_c2pa_unflagged(available, file) ==
  IF ~available
  THEN [c2pa_present |-> FALSE,
        message |-> "C2PA library not available on this platform"]
  ELSE IF Has(file, "missing")
  THEN [c2pa_present |-> FALSE, error |-> "file not found"]
  ELSE IF file.data.reader = "raises"
  THEN [c2pa_present |-> FALSE, error |-> "c2pa error"]
  ELSE IF file.data.reader = "empty"
  THEN [c2pa_present |-> FALSE, message |-> "No C2PA manifest found"]
  ELSE ReadManifest(file.data.manifest)

\* check_c2pa(file_path).  file is what the path holds when the reader
\* opens it: NoFile, or the stored upload.  c2pa.Reader raises on a missing
\* file and on bytes it cannot read a manifest store from.
check_c2pa(available, file) ==
  IF ~available
  THEN [c2pa_present |-> FALSE, available |-> FALSE,
        message |-> "C2PA library not available on this platform"]
  ELSE IF Has(file, "missing")
  THEN [c2pa_present |-> FALSE, error |-> "file not found"]
  ELSE IF file.data.reader = "raises"
  THEN [c2pa_present |-> FALSE, error |-> "c2pa error"]
  ELSE IF file.data.reader = "empty"
  THEN [c2pa_present |-> FALSE, message |-> "No C2PA manifest found"]
  ELSE ReadManifest(file.data.manifest)

\* ------------------------------------------------------ combine_model.py
\* AIEnsemblePredictor.__init__: raises unless the ResNet weights, the ViT
\* model and both meta-learner files load.  art says which artifacts exist.
Artifacts == [resnet : BOOLEAN, vit : BOOLEAN, meta : BOOLEAN, poly : BOOLEAN]
InitRaises(art) ==
  \/ ~art.resnet
  \/ ~art.vit
  \/ ~(art.meta /\ art.poly)

\* Variant of the threshold of line 90 that is not strict.
Fuse_ge(prob) ==
  IF 2 * prob >= Scale
  THEN [label |-> "AI Image", confidence |-> PyFloat(prob)]
  ELSE [label |-> "Real Image", confidence |-> PyFloat(Scale - prob)]

\* Label and confidence from final_ai_prob (lines 90-97); prob is n / Scale,
\* so prob > 0.5 is 2n > Scale and 1 - prob is (Scale - n) / Scale.
Fuse(prob) ==
  IF 2 * prob > Scale
  THEN [label |-> "AI Image", confidence |-> PyFloat(prob)]
  ELSE [label |-> "Real Image", confidence |-> PyFloat(Scale - prob)]

\* predict(image_path).  file is what the path holds; fails says whether
\* the forward passes or the meta-learner raise (lines 64-86 are not
\* guarded).  The outcome is a raised exception or the returned pair; the
\* local final_ai_prob is kept beside the pair it was fused into.
predict(file, fails) ==
  IF Has(file, "missing")
  THEN [raised |-> FALSE, label |-> "Error",
        confidence |-> PyStr("Image not found")]
  ELSE IF file.data.image = "garbage"
  THEN [raised |-> FALSE, label |-> "Error",
        confidence |-> PyStr("Invalid image file")]
  ELSE IF fails
  THEN [raised |-> TRUE, error |-> "inference failed"]
  ELSE [raised |-> FALSE, final_ai_prob |-> file.data.prob]
         @@ Fuse(file.data.prob)

\* ------------------------------------------------------------- inputs
\* Manifest stores as c2pa.Reader(...).json() returns them, after json.loads.
IptcType(t) == <<"cv.iptc.org", "newscodes", "digitalsourcetype", t>>
ActionsAssertion(actions) ==
  [label |-> "c2pa.actions", data |-> [actions |-> actions]]
Store(manifest, status) ==
  [active_manifest |-> "urn:m1", manifests |-> ("urn:m1" :> manifest),
   validation_status |-> status]

\* An image made by a generator: signed, valid, one created action.
AiDoc ==
  Store([signature_info |-> [issuer |-> "Generator Inc"],
         assertions |-> <<ActionsAssertion(
           <<[action |-> "c2pa.created",
              digitalSourceType |-> IptcType("trainedAlgorithmicMedia")]>>)>>],
        <<>>)
\* A photograph signed by a camera: no AI source type anywhere.
CameraDoc ==
  Store([signature_info |-> [issuer |-> "Camera Co"],
         assertions |-> <<[label |-> "c2pa.hash.data"],
                          ActionsAssertion(
           <<[action |-> "c2pa.created",
              digitalSourceType |-> IptcType("digitalCapture")],
             [action |-> "c2pa.cropped"]>>)>>],
        <<>>)
\* A generated image whose signature does not validate and names no issuer.
TamperedAiDoc ==
  Store([assertions |-> <<ActionsAssertion(
           <<[action |-> "c2pa.opened"],
             [action |-> "c2pa.edited",
              digitalSourceType |-> IptcType("trainedAlgorithmicMedia")]>>)>>],
        <<"signingCredential.untrusted">>)
\* A store that names no active manifest.
NoActiveDoc == [manifests |-> EmptyDict]

\* The bytes of an upload, by what the readers make of them: what
\* c2pa.Reader does, the manifest store it yields, whether PIL decodes the
\* image, and the probability the fitted ensemble gives it.
Data(reader, manifest, image, prob) ==
  [reader |-> reader, manifest |-> manifest, image |-> image, prob |-> prob]

\* What is uploaded: a photograph whose manifest store names no active
\* manifest, at the 0.5 threshold; bytes that are no image and hold no
\* manifest; a generated image, a camera photograph and a tampered
\* generated image, each with a manifest.
Uploads ==
  {Data("json", NoActiveDoc, "ok", Scale \div 2),
   Data("raises", EmptyDict, "garbage", 0),
   Data("json", AiDoc, "ok", Scale),
   Data("json", CameraDoc, "ok", 0),
   Data("json", TamperedAiDoc, "ok", Scale)}
\* Photographs without a manifest, one for every probability of the grid.
FusionUploads ==
  {Data(reader, EmptyDict, "ok", n) : reader \in {"raises", "empty"}, n \in 0..Scale}

RawNames ==
  {<<>>,
   <<Comp("a", "png")>>,
   <<DotDot, Comp("a", "png")>>,
   <<Comp("a", "PNG")>>,
   <<Comp("notes", "txt")>>,
   <<Comp("README", "nodot")>>}

\* request.files of a POST: empty, or the part named file.
Posts(U) ==
  {EmptyDict} \cup {[file |-> [filename |-> f, data |-> d]] : f \in RawNames, d \in U}

UPLOAD_FOLDER == Comp("uploads", "nodot")
JoinPath(folder, filename) == <<folder>> \o filename
Paths == {JoinPath(UPLOAD_FOLDER, secure_filename(f)) :
            f \in {g \in RawNames : allowed_file(g)}}



\* ------------------------------------------------------------ state
VARIABLES
  predictor,       \* app.py global: "None" or "loaded"
  C2PA_AVAILABLE,  \* c2pa_checker.py global
  disk,            \* the uploads folder: path -> NoFile or the stored upload
  pc,              \* each request's position in analyze_image
  filepath,        \* each request's local filepath
  result,          \* each request's result dict (the response once returned)
  inference,       \* the outcome of each request's predictor.predict call
  removes          \* how often each request has called os.remove

vars == <<predictor, C2PA_AVAILABLE, disk, pc, filepath, result, inference, removes>>

NoPath == <<>>

\* ------------------------------------------------- analyze_image, by parts
SetKey(d, k, v) == [x \in DOMAIN d \cup {k} |-> IF x = k THEN v ELSE d[x]]

\* lines 77-88
InitialResult(filename) ==
  [success |-> TRUE,
   filename |-> filename,
   layers |-> [c2pa |-> NoneVal, synthid |-> NoneVal, ai_model |-> NoneVal],
   final_verdict |-> "None",
   confidence |-> PyInt(0),
   is_ai_generated |-> FALSE]

\* lines 94-98: c2pa_result.get('available') == False
Layer1(res, c2pa_result) ==
  [res EXCEPT !.layers.c2pa =
     IF Has(c2pa_result, "available") /\ c2pa_result.available = FALSE
     THEN SetKey(c2pa_result, "status", "unavailable")
     ELSE c2pa_result]

\* Variants of the test of line 100: one that also asks for a valid
\* signature, one that also asks for the AI signal.
ShortCircuits_valid(c2pa_result) ==
  /\ Has(c2pa_result, "c2pa_present") /\ c2pa_result.c2pa_present
  /\ Has(c2pa_result, "valid") /\ c2pa_result.valid
ShortCircuits_ai(c2pa_result) ==
  /\ Has(c2pa_result, "c2pa_present") /\ c2pa_result.c2pa_present
  /\ Has(c2pa_result, "ai_generated") /\ c2pa_result.ai_generated

\* line 100: if c2pa_result.get('c2pa_present')
ShortCircuits(c2pa_result) ==
  Has(c2pa_result, "c2pa_present") /\ c2pa_result.c2pa_present

\* lines 102-111; 100.0 is 100 * Scale on the fixed-point grid
ShortCircuitResult(res) ==
  [res EXCEPT
     !.confidence = PyFloat(100 * Scale),
     !.is_ai_generated = TRUE,
     !.final_verdict = "AI Generated (C2PA Verified)",
     !.layers.c2pa = SetKey(res.layers.c2pa, "status", "verified"),
     !.layers.synthid =
        [status |-> "skipped", reason |-> "C2PA verification successful"],
     !.layers.ai_model =
        [status |-> "skipped", reason |-> "C2PA verification successful"]]

\* line 116
SynthIDResult(res) ==
  [res EXCEPT !.layers.synthid =
     [status |-> "skipped", reason |-> "Not implemented"]]

\* lines 123-135, with label, confidence the pair predict returned
ModelResult(res, label, confidence) ==
  LET confidence_percent == Times100(confidence) IN
  [res EXCEPT
     !.layers.ai_model = [status |-> "complete", label |-> label,
                          confidence |-> confidence_percent],
     !.confidence = confidence_percent,
     !.is_ai_generated = (label = "AI Image"),
     !.final_verdict = label]

\* Variant of lines 137-141 that leaves final_verdict unset.
ModelMissingResult_noverdict(res) ==
  [res EXCEPT
     !.layers.ai_model = [status |-> "error", error |-> "AI model not loaded"]]

\* lines 137-141
ModelMissingResult(res) ==
  [res EXCEPT
     !.layers.ai_model = [status |-> "error", error |-> "AI model not loaded"],
     !.final_verdict = "Unknown (Model unavailable)"]

\* lines 143-145
ExceptResult(res, e) == SetKey([res EXCEPT !.success = FALSE], "error", e)

\* ---------------------------------------------------------------- actions
\* Each action is a stretch of analyze_image that touches the uploads
\* folder at most once, together with the local steps that follow it.

\* lines 62-70: the three 400 responses.
Reject(r, U) ==
  /\ pc[r] = "start"
  /\ \E files \in Posts(U) :
       \/ /\ ~Has(files, "file")
          /\ result' = [result EXCEPT ![r] =
               [success |-> FALSE, error |-> "No file provided", code |-> 400]]
       \/ /\ Has(files, "file")
          /\ files.file.filename = <<>>
          /\ result' = [result EXCEPT ![r] =
               [success |-> FALSE, error |-> "No file selected", code |-> 400]]
       \/ /\ Has(files, "file")
          /\ files.file.filename # <<>>
          /\ ~allowed_file(files.file.filename)
          /\ result' = [result EXCEPT ![r] =
               [success |-> FALSE, error |-> "File type not allowed", code |-> 400]]
  /\ pc' = [pc EXCEPT ![r] = "rejected"]
  /\ UNCHANGED <<predictor, C2PA_AVAILABLE, disk, filepath, inference, removes>>

\* lines 72-88: file.save replaces whatever the path held before.
Stage(r, U) ==
  /\ pc[r] = "start"
  /\ \E files \in Posts(U) :
       /\ Has(files, "file")
       /\ files.file.filename # <<>>
       /\ allowed_file(files.file.filename)
       /\ LET filename == secure_filename(files.file.filename)
              path == JoinPath(UPLOAD_FOLDER, filename)
          IN /\ filepath' = [filepath EXCEPT ![r] = path]
             /\ disk' = [disk EXCEPT ![path] = [by |-> r, data |-> files.file.data]]
             /\ result' = [result EXCEPT ![r] = InitialResult(filename)]
  /\ pc' = [pc EXCEPT ![r] = "c2pa"]
  /\ UNCHANGED <<predictor, C2PA_AVAILABLE, inference, removes>>

\* lines 92-111: LAYER 1 finds a manifest and the other layers are skipped.
ProvenanceShortCircuit(r) ==
  /\ pc[r] = "c2pa"
  /\ LET c2pa_result == check_c2pa(C2PA_AVAILABLE, disk[filepath[r]]) IN
       /\ ShortCircuits(c2pa_result)
       /\ result' = [result EXCEPT ![r] =
            ShortCircuitResult(Layer1(result[r], c2pa_result))]
  /\ pc' = [pc EXCEPT ![r] = "finally"]
  /\ UNCHANGED <<predictor, C2PA_AVAILABLE, disk, filepath, inference, removes>>

\* lines 92-100 and 113-116: LAYER 1 finds none, LAYER 2 is skipped.
ProvenanceContinue(r) ==
  /\ pc[r] = "c2pa"
  /\ LET c2pa_result == check_c2pa(C2PA_AVAILABLE, disk[filepath[r]]) IN
       /\ ~ShortCircuits(c2pa_result)
       /\ result' = [result EXCEPT ![r] =
            SynthIDResult(Layer1(result[r], c2pa_result))]
  /\ pc' = [pc EXCEPT ![r] = "ai_model"]
  /\ UNCHANGED <<predictor, C2PA_AVAILABLE, disk, filepath, inference, removes>>

\* lines 119-135: LAYER 3, predict returns
AIModelPredict(r) ==
  /\ pc[r] = "ai_model"
  /\ predictor # "None"
  /\ \E fails \in BOOLEAN :
       LET out == predict(disk[filepath[r]], fails) IN
         /\ ~out.raised
         /\ inference' = [inference EXCEPT ![r] = out]
         /\ result' = [result EXCEPT ![r] =
              ModelResult(result[r], out.label, out.confidence)]
  /\ pc' = [pc EXCEPT ![r] = "finally"]
  /\ UNCHANGED <<predictor, C2PA_AVAILABLE, disk, filepath, removes>>

\* lines 119-123 and 143-145: LAYER 3, predict raises
AIModelRaises(r) ==
  /\ pc[r] = "ai_model"
  /\ predictor # "None"
  /\ \E fails \in BOOLEAN :
       LET out == predict(disk[filepath[r]], fails) IN
         /\ out.raised
         /\ inference' = [inference EXCEPT ![r] = out]
         /\ result' = [result EXCEPT ![r] = ExceptResult(result[r], out.error)]
  /\ pc' = [pc EXCEPT ![r] = "finally"]
  /\ UNCHANGED <<predictor, C2PA_AVAILABLE, disk, filepath, removes>>

\* lines 119-121 and 136-141: LAYER 3, no predictor
AIModelMissing(r) ==
  /\ pc[r] = "ai_model"
  /\ predictor = "None"
  /\ result' = [result EXCEPT ![r] = ModelMissingResult(result[r])]
  /\ pc' = [pc EXCEPT ![r] = "finally"]
  /\ UNCHANGED <<predictor, C2PA_AVAILABLE, disk, filepath, inference, removes>>

\* line 149: os.path.exists(filepath); when it is false, line 152 returns.
CleanupCheck(r) ==
  /\ pc[r] = "finally"
  /\ pc' = [pc EXCEPT ![r] =
       IF Has(disk[filepath[r]], "missing") THEN "done" ELSE "remove"]
  /\ UNCHANGED <<predictor, C2PA_AVAILABLE, disk, filepath, result, inference, removes>>

\* lines 150 and 152: os.remove(filepath) deletes the file, result is returned
Remove(r) ==
  /\ pc[r] = "remove"
  /\ ~Has(disk[filepath[r]], "missing")
  /\ disk' = [disk EXCEPT ![filepath[r]] = NoFile]
  /\ removes' = [removes EXCEPT ![r] = @ + 1]
  /\ pc' = [pc EXCEPT ![r] = "done"]
  /\ UNCHANGED <<predictor, C2PA_AVAILABLE, filepath, result, inference>>

\* line 150: os.remove(filepath) raises FileNotFoundError out of the finally
\* block, so the view raises and no result is returned.
RemoveRaises(r) ==
  /\ pc[r] = "remove"
  /\ Has(disk[filepath[r]], "missing")
  /\ pc' = [pc EXCEPT ![r] = "raised"]
  /\ UNCHANGED <<predictor, C2PA_AVAILABLE, disk, filepath, result, inference, removes>>

\* ------------------------------------------------------- specifications
\* lines 27-33 of app.py and 4-8 of c2pa_checker.py have run.
Init ==
  /\ \E art \in Artifacts :
       predictor = IF InitRaises(art) THEN "None" ELSE "loaded"
  /\ C2PA_AVAILABLE \in BOOLEAN
  /\ disk = [p \in Paths |-> NoFile]
  /\ pc = [r \in Reqs |-> "start"]
  /\ filepath = [r \in Reqs |-> NoPath]
  /\ result = [r \in Reqs |-> NoneVal]
  /\ inference = [r \in Reqs |-> NoneVal]
  /\ removes = [r \in Reqs |-> 0]

\* The threaded server runs the requests concurrently.
Next ==
  \E r \in Reqs :
    \/ Reject(r, Uploads)
    \/ Stage(r, Uploads)
    \/ ProvenanceShortCircuit(r)
    \/ ProvenanceContinue(r)
    \/ AIModelPredict(r)
    \/ AIModelRaises(r)
    \/ AIModelMissing(r)
    \/ CleanupCheck(r)
    \/ Remove(r)
    \/ RemoveRaises(r)

Spec == Init /\ [][Next]_vars

\* One request at a time, over every fused probability of the grid: the
\* uploads carry no manifest, so the ensemble path is the one taken.
NextFusion ==
  \E r \in {1} :
    \/ Reject(r, FusionUploads)
    \/ Stage(r, FusionUploads)
    \/ ProvenanceContinue(r)
    \/ AIModelPredict(r)
    \/ AIModelRaises(r)
    \/ AIModelMissing(r)
    \/ CleanupCheck(r)
    \/ Remove(r)

SpecFusion == Init /\ [][NextFusion]_vars

\* ------------------------------------------------------- reading a result
Staged(r) == pc[r] \in {"c2pa", "ai_model", "finally", "remove"}
Returned(r) == pc[r] = "done"
Called(r) == ~IsNone(inference[r])
PredictReturned(r) == Called(r) /\ ~inference[r].raised
Status(layer) == IF Has(layer, "status") THEN layer.status ELSE "None"

PastProvenance(r) == pc[r] \in {"ai_model", "finally", "remove", "done", "raised"}
Manifest(r) == result[r].layers.c2pa
Present(m) == Has(m, "c2pa_present") /\ m.c2pa_present
AiSignal(m) == Has(m, "ai_generated") /\ m.ai_generated
NotImplemented == [status |-> "skipped", reason |-> "Not implemented"]
ProvenanceVerdict == "AI Generated (C2PA Verified)"
Max(a, b) == IF a >= b THEN a ELSE b

\* The result carries what predict returned: lines 125-135.
FromPair(r) ==
  /\ result[r].layers.ai_model =
       [status |-> "complete", label |-> inference[r].label,
        confidence |-> Times100(inference[r].confidence)]
  /\ result[r].final_verdict = inference[r].label
  /\ result[r].confidence = Times100(inference[r].confidence)
  /\ result[r].is_ai_generated = (inference[r].label = "AI Image")

\* ------------------------------------------------------------------ C1
\* C1: once check_c2pa has reported a manifest that is present and carries
\* the AI-generation signal, the request's result has confidence 100,
\* is_ai_generated true, the provenance verdict, the synthid and ai_model
\* layers skipped, and predictor.predict has not been called by the request.
C1_ShortCircuitEffect ==
  \A r \in Reqs :
    (PastProvenance(r) /\ Present(Manifest(r)) /\ AiSignal(Manifest(r))) =>
      /\ result[r].confidence = PyFloat(100 * Scale)
      /\ result[r].is_ai_generated
      /\ result[r].final_verdict = ProvenanceVerdict
      /\ Status(result[r].layers.synthid) = "skipped"
      /\ Status(result[r].layers.ai_model) = "skipped"
      /\ ~Called(r)

\* A returned result of a request whose manifest is present with the AI
\* signal, on a server whose predictor is loaded.
C1_Witness ==
  \E r \in Reqs :
    /\ Returned(r)
    /\ predictor = "loaded"
    /\ Present(Manifest(r)) /\ AiSignal(Manifest(r))

\* ------------------------------------------------------------------ C2
\* C2 as claimed: with the predictor loaded, a request short-circuits only
\* when its manifest is present and carries the AI signal; otherwise the
\* returned result has synthid skipped as not implemented, predict was
\* called, the verdict is not the provenance verdict, and what predict
\* returned is what the result carries.
C2_ShortCircuitOnlyOnAiSignal ==
  \A r \in Reqs :
    (PastProvenance(r) /\ predictor = "loaded") =>
      LET sc == Present(Manifest(r)) /\ AiSignal(Manifest(r)) IN
        /\ Status(result[r].layers.ai_model) = "skipped" => sc
        /\ (~sc /\ Returned(r)) =>
             /\ result[r].layers.synthid = NotImplemented
             /\ Called(r)
             /\ result[r].final_verdict # ProvenanceVerdict
             /\ PredictReturned(r) => FromPair(r)

\* C2 amended: with the predictor loaded, a request short-circuits exactly
\* when its manifest is present, whatever the AI signal; when the manifest
\* is not present the returned result has synthid skipped as not
\* implemented, predict was called, the verdict is not the provenance
\* verdict, and when predict returned a pair the result carries that pair.
C2_ShortCircuitOnPresence ==
  \A r \in Reqs :
    (PastProvenance(r) /\ predictor = "loaded") =>
      LET sc == Present(Manifest(r)) IN
        /\ Status(result[r].layers.ai_model) = "skipped" => sc
        /\ sc => /\ Status(result[r].layers.ai_model) = "skipped"
                 /\ ~Called(r)
        /\ (~sc /\ Returned(r)) =>
             /\ result[r].layers.synthid = NotImplemented
             /\ Called(r)
             /\ result[r].final_verdict # ProvenanceVerdict
             /\ PredictReturned(r) => FromPair(r)

\* Two returned results on a server with the predictor loaded: one of a
\* request whose manifest is present without the AI signal, short-circuited;
\* one of a request without a manifest, carrying the fused pair.
C2_Witness ==
  /\ predictor = "loaded"
  /\ \E r \in Reqs :
       /\ Returned(r)
       /\ Present(Manifest(r)) /\ ~AiSignal(Manifest(r))
       /\ Status(result[r].layers.ai_model) = "skipped"
  /\ \E r \in Reqs :
       /\ Returned(r)
       /\ ~Present(Manifest(r))
       /\ PredictReturned(r)
       /\ Has(inference[r], "final_ai_prob")

\* ------------------------------------------------------------------ C3
\* C3 as claimed: in every returned result of a request that did not
\* short-circuit, the ai_model layer is complete, error or unavailable,
\* never left unset.
C3_EnsembleNeverPending ==
  \A r \in Reqs :
    (Returned(r) /\ ~ShortCircuits(Manifest(r))) =>
      Status(result[r].layers.ai_model) \in {"complete", "error", "unavailable"}

\* ------------------------------------------------------------------ C4
\* C4 as claimed: when predict raised, or returned its "Error" outcome, the
\* returned result has success false and an error message, and the
\* ai_model layer is marked error.
C4_InferenceFailureReported ==
  \A r \in Reqs :
    (Returned(r) /\ Called(r)
       /\ (IF inference[r].raised THEN TRUE ELSE inference[r].label = "Error")) =>
      /\ result[r].success = FALSE
      /\ Has(result[r], "error")
      /\ Status(result[r].layers.ai_model) = "error"

\* ------------------------------------------------------------------ C5
\* C5 as claimed: from a request's file.save to its own cleanup, the file
\* at its path exists and is the one that request saved.
C5_ExclusiveOwnership ==
  \A r \in Reqs :
    Staged(r) =>
      /\ ~Has(disk[filepath[r]], "missing")
      /\ disk[filepath[r]].by = r

\* ------------------------------------------------------------------ C6
\* C6 as claimed: a request that staged an image has removed its file
\* exactly once when analyze_image is left.
C6_ReleasedExactlyOnce ==
  \A r \in Reqs : pc[r] \in {"done", "raised"} => removes[r] = 1

\* ------------------------------------------------------------------ C7
\* C7: for every fused probability p of the grid, the label is 'AI Image'
\* exactly when p > 0.5, so p = 0.5 gives 'Real Image', and the confidence
\* of the ai_model layer and of the result is 100 * max(p, 1 - p), which is
\* at least 50.
C7_FusionResult ==
  \A r \in Reqs :
    (PredictReturned(r) /\ Has(inference[r], "final_ai_prob")) =>
      LET p == inference[r].final_ai_prob
          layer == result[r].layers.ai_model
      IN /\ (layer.label = "AI Image") <=> (2 * p > Scale)
         /\ (layer.label = "Real Image") <=> (2 * p <= Scale)
         /\ layer.confidence = PyFloat(100 * Max(p, Scale - p))
         /\ result[r].confidence = layer.confidence
         /\ 2 * layer.confidence.val >= 100 * Scale
         /\ result[r].final_verdict = layer.label

\* A returned result for the probability nearest to 0.5 from below, which
\* is 0.5 itself on an even grid.
C7_Witness ==
  \E r \in Reqs :
    /\ Returned(r)
    /\ PredictReturned(r)
    /\ Has(inference[r], "final_ai_prob")
    /\ inference[r].final_ai_prob = Scale \div 2
    /\ result[r].layers.ai_model.label = "Real Image"

\* ------------------------------------------------------------------ C8
\* C8 as claimed: with no predictor, every returned result of a request
\* that did not short-circuit has the ai_model layer marked unavailable,
\* the model-unavailable verdict, is_ai_generated false, no predict call
\* and success true.
C8_EnsembleMarkedUnavailable ==
  \A r \in Reqs :
    (Returned(r) /\ predictor = "None" /\ ~ShortCircuits(Manifest(r))) =>
      /\ Status(result[r].layers.ai_model) = "unavailable"
      /\ result[r].final_verdict = "Unknown (Model unavailable)"
      /\ ~result[r].is_ai_generated
      /\ ~Called(r)
      /\ result[r].success

\* C8 amended: with no predictor, every returned result of a request that
\* did not short-circuit has the ai_model layer marked error with the
\* message 'AI model not loaded', the model-unavailable verdict,
\* is_ai_generated false, no predict call and success true; a request that
\* short-circuits gets the provenance verdict with success true as usual.
C8_EnsembleMarkedError ==
  \A r \in Reqs :
    (Returned(r) /\ predictor = "None") =>
      IF ShortCircuits(Manifest(r))
      THEN /\ result[r].success
           /\ result[r].final_verdict = ProvenanceVerdict
           /\ result[r].confidence = PyFloat(100 * Scale)
      ELSE /\ result[r].layers.ai_model =
                [status |-> "error", error |-> "AI model not loaded"]
           /\ result[r].final_verdict = "Unknown (Model unavailable)"
           /\ ~result[r].is_ai_generated
           /\ ~Called(r)
           /\ result[r].success

\* A returned result of a request without a manifest on a server without
\* a predictor.
C8_Witness ==
  \E r \in Reqs :
    /\ Returned(r)
    /\ predictor = "None"
    /\ ~ShortCircuits(Manifest(r))
    /\ Status(result[r].layers.ai_model) = "error"

\* ------------------------------------------------------------------ C9
\* C9: the step that runs check_c2pa never fails the request.  Without the
\* c2pa library the record is {c2pa_present: False, available: False, ...}
\* and the layer is marked unavailable; when the reader raises (no file, or
\* no readable manifest store) the record is {c2pa_present: False, error}.
\* In both cases the record has no valid, issuer or ai_generated, success
\* stays true and the request goes on to the ai_model stage.
ReaderRaises(file) ==
  IF Has(file, "missing") THEN TRUE ELSE file.data.reader = "raises"
C9_ProvenanceDegrades ==
  [][\A r \in Reqs :
       (pc[r] = "c2pa" /\ pc'[r] # "c2pa") =>
         LET m == result'[r].layers.c2pa
             raises == C2PA_AVAILABLE /\ ReaderRaises(disk[filepath[r]])
         IN /\ ~C2PA_AVAILABLE =>
                 /\ Has(m, "available") /\ m.available = FALSE
                 /\ m.c2pa_present = FALSE
                 /\ Status(m) = "unavailable"
            /\ raises =>
                 /\ DOMAIN m = {"c2pa_present", "error"}
                 /\ m.c2pa_present = FALSE
            /\ (~C2PA_AVAILABLE \/ raises) =>
                 /\ DOMAIN m \cap {"valid", "issuer", "ai_generated"} = {}
                 /\ result'[r].success
                 /\ result'[r].layers.synthid = NotImplemented
                 /\ pc'[r] = "ai_model"]_vars

\* A request at the ai_model stage whose record holds the reader's error,
\* with success still true.
C9_Witness ==
  \E r \in Reqs :
    /\ pc[r] = "ai_model"
    /\ C2PA_AVAILABLE
    /\ Has(Manifest(r), "error")
    /\ result[r].success

\* ----------------------------------------------------------------- C10
\* C10 as claimed: every returned result with success true has a verdict,
\* a numeric confidence between 0 and 100, no layer left unset, and
\* is_ai_generated only after a short-circuit or an 'AI Image' label.
C10_WellFormedResult ==
  \A r \in Reqs :
    (Returned(r) /\ result[r].success) =>
      /\ result[r].final_verdict # "None"
      /\ IsNumber(result[r].confidence)
      /\ result[r].confidence.val >= 0
      /\ result[r].confidence.val <= 100 * Scale
      /\ ~IsNone(result[r].layers.c2pa)
      /\ ~IsNone(result[r].layers.synthid)
      /\ ~IsNone(result[r].layers.ai_model)
      /\ result[r].is_ai_generated =>
           \/ Status(result[r].layers.ai_model) = "skipped"
           \/ /\ Has(result[r].layers.ai_model, "label")
              /\ result[r].layers.ai_model.label = "AI Image"

====
